---- MODULE Spec2Model ----
(***************************************************************************)
(* Model of the tech-maturity catalogue backend of service-catalogue:      *)
(*   - TechMaturityEntityProvider (discovery of CloudFormation stacks      *)
(*     across the accounts of an AWS organization, one 'full' mutation per *)
(*     refresh), as a state machine whose steps are the resumptions of the *)
(*     async code at its awaits;                                           *)
(*   - TechMaturityCatalogProcessor / TechMaturityCatalogProcessor2        *)
(*     readLocation, as operators applied to bounded inputs.               *)
(***************************************************************************)
EXTENDS Integers, Sequences, FiniteSets, TLC

\* ------------------------------------------------------------------ bounds
\* size of the inventory one cycle discovers: the accounts the organization
\* listing returns plus the stacks the describe-stacks listings return
MaxInventory == 4
\* pages of the account listing, at most
MaxAcctPages == 2
\* runs of the scheduled task
MaxCycles == 2

\* ------------------------------------------------------- program constants
\* catalog.providers.techMaturity.regions, as configured
regions == <<"eu-west-1", "us-east-1">>

\* the names stacks are drawn from
StackNames == {"order-service", "billing"}

\* @aws-sdk/client-cloudformation StackStatus
StackStatus ==
  { "CREATE_COMPLETE", "CREATE_FAILED", "CREATE_IN_PROGRESS",
    "DELETE_COMPLETE", "DELETE_FAILED", "DELETE_IN_PROGRESS",
    "IMPORT_COMPLETE", "IMPORT_IN_PROGRESS", "IMPORT_ROLLBACK_COMPLETE",
    "IMPORT_ROLLBACK_FAILED", "IMPORT_ROLLBACK_IN_PROGRESS",
    "REVIEW_IN_PROGRESS", "ROLLBACK_COMPLETE", "ROLLBACK_FAILED",
    "ROLLBACK_IN_PROGRESS", "UPDATE_COMPLETE",
    "UPDATE_COMPLETE_CLEANUP_IN_PROGRESS", "UPDATE_FAILED",
    "UPDATE_IN_PROGRESS", "UPDATE_ROLLBACK_COMPLETE",
    "UPDATE_ROLLBACK_COMPLETE_CLEANUP_IN_PROGRESS", "UPDATE_ROLLBACK_FAILED",
    "UPDATE_ROLLBACK_IN_PROGRESS" }

\* the statuses the listing returns in the model: one of the allow-list and
\* the one StackStatus outside it
ListedStatuses == {"UPDATE_COMPLETE", "DELETE_COMPLETE"}

IN_SCOPE_STACK_STATUSES ==
  << "CREATE_COMPLETE", "CREATE_FAILED", "CREATE_IN_PROGRESS",
     "DELETE_FAILED", "DELETE_IN_PROGRESS",
     "IMPORT_COMPLETE", "IMPORT_IN_PROGRESS", "IMPORT_ROLLBACK_COMPLETE",
     "IMPORT_ROLLBACK_FAILED", "IMPORT_ROLLBACK_IN_PROGRESS",
     "REVIEW_IN_PROGRESS", "ROLLBACK_COMPLETE", "ROLLBACK_FAILED",
     "ROLLBACK_IN_PROGRESS", "UPDATE_COMPLETE",
     "UPDATE_COMPLETE_CLEANUP_IN_PROGRESS", "UPDATE_FAILED",
     "UPDATE_IN_PROGRESS", "UPDATE_ROLLBACK_COMPLETE",
     "UPDATE_ROLLBACK_COMPLETE_CLEANUP_IN_PROGRESS", "UPDATE_ROLLBACK_FAILED",
     "UPDATE_ROLLBACK_IN_PROGRESS" >>

CloudFormationStackLocationType == "cloudformation-stack"

getProviderName == "tech-maturity-provider"

\* pMap without its concurrency option: every mapper is started at once
concurrency_Unlimited == MaxInventory

\* pMap(..., { concurrency: 3 })
concurrency == 3

\* ------------------------------------------------------------------- state
VARIABLES
  connection,  \* this.connection: "undefined" or "connected"
  pc,          \* position of the scheduled task: "idle", "listing",
               \* "scanning" (inside pMap), "done"
  cycle,       \* runs of the task function started so far
  accounts,    \* refresh's local accounts array
  acctPages,   \* pages of paginateListAccounts consumed
  task,        \* per account index: the state of its pMap mapper
  stacks,      \* refresh's local stacks array (the snapshot being built)
  origin,      \* history: for each element of stacks, the listed stack it
               \* was pushed for
  listed,      \* history: the stacks describe-stacks returned in this cycle
  applied,     \* the applyMutation calls of this cycle, in order
  timeout,     \* whether the task runner's timeout elapsed in this cycle
               \* while account mappers were in flight
  err,         \* the error the task function's catch logged in this cycle
  released,    \* runs of fn the task runner released at their timeout and
               \* that have not returned yet
  prevProbe,   \* history: whether the snapshot of an earlier cycle held an
               \* entry with the target ProbeTarget
  rlIn,        \* readLocation: the location read and what the CloudFormation
               \* API answers for its stack
  rlOut,       \* readLocation: per processor, what the call returned and
               \* the entities it emitted
  pairIn,      \* two reads of two locations: what each is given
  pairOut      \* two reads: per read and processor, what the call returned
               \* and the entities it emitted

\* what outlives a run of fn
crossVars == << released, prevProbe >>

provVars ==
  << connection, pc, cycle, accounts, acctPages, task, stacks, origin,
     listed, applied, timeout, err, crossVars >>

pairVars == << pairIn, pairOut >>

rlVars == << rlIn, rlOut, pairVars >>

vars == << provVars, rlVars >>

\* the mapper of an account: not yet called by pMap, awaiting a
\* describe-stacks page of region r, or settled with an outcome: "ok" (all
\* regions walked), "failed" (its catch ran), "returned" (the early return)
Pending == [st |-> "pending", r |-> 0, out |-> "-"]

Settled(out) == [st |-> "settled", r |-> 0, out |-> out]

Fetching(r) == [st |-> "running", r |-> r, out |-> "-"]

\* ----------------------------------------------------------------- helpers
\* the status test left out: every status passes
InScope_Any(status) == status \in StackStatus

\* IN_SCOPE_STACK_STATUSES.includes(stack.StackStatus)
InScope(status) ==
  \E i \in DOMAIN IN_SCOPE_STACK_STATUSES : IN_SCOPE_STACK_STATUSES[i] = status

\* `arn:aws:iam::${accountId}:role/${destinationRoleName}`, by its ':' fields
RoleArn(accountId) ==
  <<"arn", "aws", "iam", "", accountId, "role/destinationRoleName">>

\* the target URL of a location, by its query parameters
\* (accountId, roleArn and stackName; the region is not among them)
Target(accountId, roleArn, stackName) ==
  [ format |-> "url", accountId |-> accountId, roleArn |-> roleArn,
    stackName |-> stackName ]

\* the location key taken per account instead of from the provider name
LocationEntry_KeyPerAccount(accountId, roleArn, stack) ==
  [ locationKey |-> <<getProviderName, accountId>>,
    entity |-> [ kind |-> "Location",
                 type |-> CloudFormationStackLocationType,
                 target |-> Target(accountId, roleArn, stack.StackName) ] ]

\* the DeferredEntity pushed for one stack
LocationEntry(accountId, roleArn, stack) ==
  [ locationKey |-> getProviderName,
    entity |-> [ kind |-> "Location",
                 type |-> CloudFormationStackLocationType,
                 target |-> Target(accountId, roleArn, stack.StackName) ] ]

\* index of the first stack of a page that is out of scope, 0 if none
FirstOutOfScope(page) ==
  IF \E i \in DOMAIN page : ~InScope(page[i].StackStatus)
  THEN CHOOSE i \in DOMAIN page :
         /\ ~InScope(page[i].StackStatus)
         /\ \A j \in 1..(i - 1) : InScope(page[j].StackStatus)
  ELSE 0

\* the stacks of a page the loop pushes before it ends or returns
Pushed(page) ==
  IF FirstOutOfScope(page) = 0 THEN page
  ELSE SubSeq(page, 1, FirstOutOfScope(page) - 1)

\* the record kept of a listed stack
Listed(a, r, stack) ==
  [ account |-> a, region |-> regions[r],
    StackName |-> stack.StackName, StackStatus |-> stack.StackStatus ]

\* the describe-stacks pages the environment can return to account a in
\* region r: stacks not yet listed there, each name once
Pages(a, r) ==
  LET Stack == [StackName : StackNames, StackStatus : ListedStatuses]
      Room  == MaxInventory - Len(accounts) - Cardinality(listed)
      Cap   == IF Room < Cardinality(StackNames) THEN Room
               ELSE Cardinality(StackNames)
      Fresh(n) == ~\E l \in listed :
                     l.account = a /\ l.region = regions[r] /\ l.StackName = n
  IN { pg \in UNION {[1..k -> Stack] : k \in 0..Cap} :
         /\ \A i \in DOMAIN pg : Fresh(pg[i].StackName)
         /\ \A i, j \in DOMAIN pg : i # j => pg[i].StackName # pg[j].StackName }

Unsettled == {a \in DOMAIN task : task[a].st # "settled"}

Running == {a \in DOMAIN task : task[a].st = "running"}

\* pMap starts the next mapper as soon as fewer than `concurrency` are running
CanStart(a) ==
  /\ a \in DOMAIN task
  /\ task[a].st = "pending"
  /\ \A b \in 1..(a - 1) : task[b].st # "pending"
  /\ Cardinality(Running) < concurrency

\* the regions taken from the last to the first
EnterRegion_Reversed(r, throws) ==
  IF r > Len(regions) THEN Settled("ok")
  ELSE IF throws THEN Settled("failed")
  ELSE Fetching(Len(regions) + 1 - r)

\* the mapper of an account reaches region r: cloudFormationClientFactory,
\* then the first page request of the region, or the end of the regions
EnterRegion(r, throws) ==
  IF r > Len(regions) THEN Settled("ok")
  ELSE IF throws THEN Settled("failed")
  ELSE Fetching(r)

\* ------------------------------------------------------------ readLocation
Processors == {"TechMaturityCatalogProcessor", "TechMaturityCatalogProcessor2"}

\* what a call of readLocation returned: "true", "false" or "throws"
NotCalled == [ret |-> "not called", emitted |-> <<>>]

NoLocation == [type |-> "none"]

\* TechMaturityCatalogProcessor2.ResourceType
ResourceType == "cdk-cloudformation-stack"

\* TechMaturityCatalogProcessor.AnnotationPrefix
AnnotationPrefix == "shersoft.cloud/"

\* resources listed for a stack, at most
MaxResources == 2
\* pages of paginateListStackResources, at most
MaxResPages == 2

\* a status by its words: the text of a status is its words joined by "_"
StatusWords(status) ==
  CASE status = "CREATE_COMPLETE" -> <<"CREATE", "COMPLETE">>
    [] status = "CREATE_FAILED" -> <<"CREATE", "FAILED">>
    [] status = "CREATE_IN_PROGRESS" -> <<"CREATE", "IN", "PROGRESS">>
    [] status = "DELETE_COMPLETE" -> <<"DELETE", "COMPLETE">>
    [] status = "DELETE_FAILED" -> <<"DELETE", "FAILED">>
    [] status = "DELETE_IN_PROGRESS" -> <<"DELETE", "IN", "PROGRESS">>
    [] status = "IMPORT_COMPLETE" -> <<"IMPORT", "COMPLETE">>
    [] status = "IMPORT_IN_PROGRESS" -> <<"IMPORT", "IN", "PROGRESS">>
    [] status = "IMPORT_ROLLBACK_COMPLETE" -> <<"IMPORT", "ROLLBACK", "COMPLETE">>
    [] status = "IMPORT_ROLLBACK_FAILED" -> <<"IMPORT", "ROLLBACK", "FAILED">>
    [] status = "IMPORT_ROLLBACK_IN_PROGRESS" ->
         <<"IMPORT", "ROLLBACK", "IN", "PROGRESS">>
    [] status = "REVIEW_IN_PROGRESS" -> <<"REVIEW", "IN", "PROGRESS">>
    [] status = "ROLLBACK_COMPLETE" -> <<"ROLLBACK", "COMPLETE">>
    [] status = "ROLLBACK_FAILED" -> <<"ROLLBACK", "FAILED">>
    [] status = "ROLLBACK_IN_PROGRESS" -> <<"ROLLBACK", "IN", "PROGRESS">>
    [] status = "UPDATE_COMPLETE" -> <<"UPDATE", "COMPLETE">>
    [] status = "UPDATE_COMPLETE_CLEANUP_IN_PROGRESS" ->
         <<"UPDATE", "COMPLETE", "CLEANUP", "IN", "PROGRESS">>
    [] status = "UPDATE_FAILED" -> <<"UPDATE", "FAILED">>
    [] status = "UPDATE_IN_PROGRESS" -> <<"UPDATE", "IN", "PROGRESS">>
    [] status = "UPDATE_ROLLBACK_COMPLETE" -> <<"UPDATE", "ROLLBACK", "COMPLETE">>
    [] status = "UPDATE_ROLLBACK_COMPLETE_CLEANUP_IN_PROGRESS" ->
         <<"UPDATE", "ROLLBACK", "COMPLETE", "CLEANUP", "IN", "PROGRESS">>
    [] status = "UPDATE_ROLLBACK_FAILED" -> <<"UPDATE", "ROLLBACK", "FAILED">>
    [] status = "UPDATE_ROLLBACK_IN_PROGRESS" ->
         <<"UPDATE", "ROLLBACK", "IN", "PROGRESS">>

\* stack.Stacks?.[0]?.StackStatus?.includes('COMPLETE'): 'COMPLETE' holds no
\* "_", so it is a substring of a status exactly when it is one of its words
IncludesCOMPLETE(status) ==
  \E i \in DOMAIN StatusWords(status) : StatusWords(status)[i] = "COMPLETE"

\* createHash('shake256', {outputLength: 27}).update(input).digest()
\* .toString('hex'), kept symbolic: equal inputs give equal digests
Digest(input) == "shake256(" \o input \o ")"

\* the characters of a string, which is what spreading a string yields
Chars(s) ==
  CASE s = "shop" -> <<"s", "h", "o", "p">>
    [] OTHER -> <<s>>

\* (stack.Stacks[0].Tags || []).reduce(...): the value of the last tag with
\* the key, "undefined" when the stack carries none
RECURSIVE TagValue(_, _)
TagValue(Tags, key) ==
  IF Tags = <<>> THEN "undefined"
  ELSE IF Tags[Len(Tags)].Key = key THEN Tags[Len(Tags)].Value
  ELSE TagValue(SubSeq(Tags, 1, Len(Tags) - 1), key)

\* a || b on strings, with "undefined" the only falsy value of the model
OrElse(a, b) == IF a = "undefined" THEN b ELSE a

RECURSIVE Flatten(_)
Flatten(pages) ==
  IF pages = <<>> THEN <<>> ELSE Head(pages) \o Flatten(Tail(pages))

\* JSON.parse(location.target) of TechMaturityCatalogProcessor: the fields of
\* a JSON object, a SyntaxError for any other text
ParseJsonTarget(target) ==
  IF target.format = "json"
  THEN [ ok |-> TRUE, accountId |-> target.accountId,
         roleArn |-> target.roleArn, stackName |-> target.stackName,
         region |-> target.region ]
  ELSE [ ok |-> FALSE, accountId |-> "undefined", roleArn |-> "undefined",
         stackName |-> "undefined", region |-> "undefined" ]

\* location.target.split('@') and roleArn.split(':') of
\* TechMaturityCatalogProcessor2: a text without '@' is one field, the role
\* ARN, whose fifth ':' field is then missing
ParseAtTarget(target) ==
  IF target.format = "at"
  THEN [ ok |-> TRUE, accountId |-> target.roleArn[5],
         roleArn |-> target.roleArn, stackName |-> target.stackName,
         region |-> target.region ]
  ELSE [ ok |-> TRUE, accountId |-> "undefined", roleArn |-> <<target>>,
         stackName |-> "undefined", region |-> "undefined" ]

\* stackResourceName with the region of the location in the digest input
stackResourceName_PerRegion(loc, stack) ==
  "aws-cfn-" \o Digest(loc.region \o stack.StackId)

\* const stackResourceName of TechMaturityCatalogProcessor.readLocation
stackResourceName(loc, stack) == "aws-cfn-" \o Digest(stack.StackId)

\* lambdaResourceName computed from the logical id without the stack id
lambdaResourceName_LogicalIdOnly(loc, stack, resource) ==
  "aws-lmb-" \o Digest(resource.LogicalResourceId)

\* const lambdaResourceName of TechMaturityCatalogProcessor.readLocation
lambdaResourceName(loc, stack, resource) ==
  "aws-lmb-" \o Digest(stack.StackId \o resource.LogicalResourceId)

\* the StackEntity TechMaturityCatalogProcessor emits
StackEntity(loc, stack) ==
  LET project == TagValue(stack.Tags, "shersoft-ltd:backstage:project")
  IN [ kind |-> "Resource",
       name |-> stackResourceName(loc, stack),
       annotations |->
         [ region |-> loc.region, lookedUpWith |-> loc.roleArn,
           accountId |-> loc.accountId,
           cloudFormationStackName |-> loc.stackName ],
       spec |->
         [ type |-> "aws-cloudformation-stack",
           lifecycle |-> OrElse(TagValue(stack.Tags,
                                  "shersoft-ltd:backstage:lifecycle"),
                                "production"),
           owner |-> OrElse(TagValue(stack.Tags,
                              "shersoft-ltd:backstage:owner"), "platform"),
           dependencyOf |->
             IF project # "undefined"
             THEN [isArray |-> FALSE, items |-> <<project>>]
             ELSE [isArray |-> TRUE, items |-> <<>>],
           dependsOn |-> <<>> ] ]

\* the FunctionEntity TechMaturityCatalogProcessor emits
FunctionEntity(loc, stack, resource, detail) ==
  LET project == TagValue(stack.Tags, "shersoft-ltd:backstage:project")
  IN [ kind |-> "Resource",
       name |-> lambdaResourceName(loc, stack, resource),
       annotations |->
         [ region |-> loc.region, lookedUpWith |-> loc.roleArn,
           accountId |-> loc.accountId,
           functionName |-> resource.PhysicalResourceId,
           cloudFormationStackName |-> loc.stackName,
           cloudFormationLogicalId |-> resource.LogicalResourceId ],
       spec |->
         [ type |-> "aws-lambda-function",
           lifecycle |-> OrElse(TagValue(stack.Tags,
                                  "shersoft-ltd:backstage:lifecycle"),
                                "production"),
           owner |-> OrElse(TagValue(stack.Tags,
                              "shersoft-ltd:backstage:owner"), "platform"),
           dependencyOf |->
             [ isArray |-> TRUE,
               items |->
                 (IF project # "undefined" THEN Chars(project) ELSE <<>>)
                   \o <<"resource:" \o stackResourceName(loc, stack)>> ],
           dependsOn |->
             <<"resource:aws-lambda-runtime-" \o detail.Runtime>> ] ]

\* the RuntimeEntity TechMaturityCatalogProcessor2 emits
RuntimeEntity2(detail) ==
  [ kind |-> "Resource",
    name |-> "aws-lambda-runtime-" \o detail.Runtime,
    spec |-> [ type |-> "aws-lambda-runtime", lifecycle |-> "production",
               owner |-> "aws" ] ]

\* the FunctionEntity TechMaturityCatalogProcessor2 emits
FunctionEntity2(loc, stack, resource, detail) ==
  [ kind |-> "Resource",
    name |-> "aws-lmb-"
               \o Digest(stack.StackId \o resource.LogicalResourceId),
    annotations |->
      [ region |-> loc.region, lookedUpWith |-> loc.roleArn,
        accountId |-> loc.accountId,
        functionName |-> resource.PhysicalResourceId,
        cloudFormationStackName |-> loc.stackName,
        cloudFormationLogicalId |-> resource.LogicalResourceId ],
    spec |->
      [ type |-> "aws-lambda-function", lifecycle |-> "unknown",
        owner |-> "aws",
        dependsOn |->
          <<"resource:aws-lambda-runtime-" \o detail.Runtime>> ] ]

\* the forEach over the listed resources of TechMaturityCatalogProcessor:
\* what it emits, and whether reading a resource the template lacks threw
RECURSIVE EmitFunctions(_, _, _, _)
EmitFunctions(loc, stack, Resources, rs) ==
  IF rs = <<>> THEN [emitted |-> <<>>, threw |-> FALSE]
  ELSE IF Head(rs).ResourceType # "AWS::Lambda::Function"
  THEN EmitFunctions(loc, stack, Resources, Tail(rs))
  ELSE IF Head(rs).LogicalResourceId \notin DOMAIN Resources
  THEN [emitted |-> <<>>, threw |-> TRUE]
  ELSE LET rest == EmitFunctions(loc, stack, Resources, Tail(rs))
           detail == Resources[Head(rs).LogicalResourceId]
       IN [ emitted |-> <<FunctionEntity(loc, stack, Head(rs), detail)>>
                          \o rest.emitted,
            threw |-> rest.threw ]

\* the same loop of TechMaturityCatalogProcessor2: a RuntimeEntity, then the
\* FunctionEntity, per function resource
RECURSIVE EmitFunctions2(_, _, _, _)
EmitFunctions2(loc, stack, Resources, rs) ==
  IF rs = <<>> THEN [emitted |-> <<>>, threw |-> FALSE]
  ELSE IF Head(rs).ResourceType # "AWS::Lambda::Function"
  THEN EmitFunctions2(loc, stack, Resources, Tail(rs))
  ELSE IF Head(rs).LogicalResourceId \notin DOMAIN Resources
  THEN [emitted |-> <<>>, threw |-> TRUE]
  ELSE LET rest == EmitFunctions2(loc, stack, Resources, Tail(rs))
           detail == Resources[Head(rs).LogicalResourceId]
       IN [ emitted |-> << RuntimeEntity2(detail),
                           FunctionEntity2(loc, stack, Head(rs), detail) >>
                          \o rest.emitted,
            threw |-> rest.threw ]

\* TechMaturityCatalogProcessor.readLocation: what it returns and the
\* entities it emitted before
ReadLocation(in) ==
  IF in.type # CloudFormationStackLocationType
  THEN [ret |-> "false", emitted |-> <<>>]
  ELSE IF ~ParseJsonTarget(in.target).ok
  THEN [ret |-> "throws", emitted |-> <<>>]
  ELSE IF in.describe.throws
  THEN [ret |-> "true", emitted |-> <<>>]
  ELSE IF \/ in.describe.Stacks = <<>>
          \/ ~IncludesCOMPLETE(in.describe.Stacks[1].StackStatus)
  THEN [ret |-> "true", emitted |-> <<>>]
  ELSE IF in.template.throws \/ in.template.TemplateBody = "absent"
  THEN [ret |-> "true", emitted |-> <<>>]
  ELSE LET loc == ParseJsonTarget(in.target)
           stack == in.describe.Stacks[1]
           walk == EmitFunctions(loc, stack, in.template.Resources,
                                 Flatten(in.resources.pages))
       IN [ ret |-> "true",
            emitted |-> <<StackEntity(loc, stack)>> \o walk.emitted ]

\* TechMaturityCatalogProcessor2.readLocation
ReadLocation2(in) ==
  IF in.type # ResourceType
  THEN [ret |-> "false", emitted |-> <<>>]
  ELSE IF in.describe.throws
  THEN [ret |-> "throws", emitted |-> <<>>]
  ELSE IF \/ in.describe.Stacks = <<>>
          \/ ~IncludesCOMPLETE(in.describe.Stacks[1].StackStatus)
  THEN [ret |-> "true", emitted |-> <<>>]
  ELSE IF in.template.throws \/ in.template.TemplateBody = "absent"
  THEN [ret |-> "throws", emitted |-> <<>>]
  ELSE LET loc == ParseAtTarget(in.target)
           stack == in.describe.Stacks[1]
           walk == EmitFunctions2(loc, stack, in.template.Resources,
                                  Flatten(in.resources.pages))
       IN [ ret |-> IF walk.threw \/ in.resources.throwsAfter
                    THEN "throws" ELSE "true",
            emitted |-> walk.emitted ]

\* ------------------------------------------------- inputs of readLocation
AccountIds == {"111111111111"}

StackIds == {"arn:aws:cloudformation:eu-west-1:111111111111:stack/order-service/1"}

Runtimes == {"nodejs18.x", "python3.9"}

\* the statuses DescribeStacks answers with: complete and in scope, complete
\* and deleted, not complete
DescribedStatuses == {"UPDATE_COMPLETE", "DELETE_COMPLETE", "CREATE_IN_PROGRESS"}

TagLists ==
  { <<>>,
    << [Key |-> "shersoft-ltd:backstage:project", Value |-> "shop"] >>,
    << [Key |-> "shersoft-ltd:backstage:lifecycle", Value |-> "experimental"],
       [Key |-> "shersoft-ltd:backstage:owner", Value |-> "team-a"] >>,
    << [Key |-> "shersoft-ltd:backstage:lifecycle", Value |-> "experimental"],
       [Key |-> "shersoft-ltd:backstage:owner", Value |-> "team-a"],
       [Key |-> "shersoft-ltd:backstage:project", Value |-> "shop"] >> }

\* the locations read: the JSON and '@' targets the processors decode, and
\* the URL target of the provider
Locations ==
  UNION { { [ type |-> CloudFormationStackLocationType,
              target |-> [ format |-> "json", accountId |-> a,
                           roleArn |-> RoleArn(a),
                           stackName |-> "order-service",
                           region |-> regions[1] ] ],
            [ type |-> CloudFormationStackLocationType,
              target |-> Target(a, RoleArn(a), "order-service") ],
            [ type |-> ResourceType,
              target |-> [ format |-> "at", roleArn |-> RoleArn(a),
                           stackName |-> "order-service",
                           region |-> regions[1] ] ],
            [ type |-> ResourceType,
              target |-> Target(a, RoleArn(a), "order-service") ],
            [ type |-> "url",
              target |-> Target(a, RoleArn(a), "order-service") ] }
          : a \in AccountIds }

\* the answers of DescribeStacksCommand
Describes ==
  { [throws |-> TRUE, Stacks |-> <<>>], [throws |-> FALSE, Stacks |-> <<>>] }
    \cup { [ throws |-> FALSE,
             Stacks |-> << [ StackId |-> id, StackStatus |-> st,
                             Tags |-> tags ] >> ]
           : id \in StackIds, st \in DescribedStatuses, tags \in TagLists }

Lambda(rt) == [Type |-> "AWS::Lambda::Function", Runtime |-> rt]

Queue == [Type |-> "AWS::SQS::Queue", Runtime |-> "undefined"]

\* the Resources of the parsed template: two functions and a queue, or the
\* first function and the queue only
TemplateResources ==
  { [id \in {"F1", "F2", "Q"} |->
       IF id = "F1" THEN Lambda(r1) ELSE IF id = "F2" THEN Lambda(r2) ELSE Queue]
    : r1 \in Runtimes, r2 \in Runtimes }
    \cup { [id \in {"F1", "Q"} |-> IF id = "F1" THEN Lambda(r1) ELSE Queue]
           : r1 \in Runtimes }

\* the answers of GetTemplateCommand
Templates ==
  { [throws |-> TRUE, TemplateBody |-> "absent", Resources |-> <<>>],
    [throws |-> FALSE, TemplateBody |-> "absent", Resources |-> <<>>] }
    \cup { [throws |-> FALSE, TemplateBody |-> "present", Resources |-> rs]
           : rs \in TemplateResources }

\* the StackResourceSummaries a stack can list
Summaries ==
  { [ LogicalResourceId |-> "F1", ResourceType |-> "AWS::Lambda::Function",
      PhysicalResourceId |-> "order-fn-1" ],
    [ LogicalResourceId |-> "F2", ResourceType |-> "AWS::Lambda::Function",
      PhysicalResourceId |-> "order-fn-2" ],
    [ LogicalResourceId |-> "Q", ResourceType |-> "AWS::SQS::Queue",
      PhysicalResourceId |-> "order-queue" ] }

\* the pages of paginateListStackResources: each resource once, and whether
\* the request after the last of these pages fails
ResourceListings ==
  LET PageSet == UNION {[1..k -> Summaries] : k \in 0..MaxResources}
      Good(ps) ==
        LET all == Flatten(ps)
        IN /\ Len(all) <= MaxResources
           /\ \A i, j \in DOMAIN all : i # j => all[i] # all[j]
           /\ Len(ps) > 1 => \A i \in DOMAIN ps : ps[i] # <<>>
  IN { [pages |-> ps, throwsAfter |-> t]
       : ps \in {q \in UNION {[1..n -> PageSet] : n \in 1..MaxResPages} : Good(q)},
         t \in BOOLEAN }

RLInputs ==
  { [ type |-> l.type, target |-> l.target, describe |-> d, template |-> t,
      resources |-> r ]
    : l \in Locations, d \in Describes, t \in Templates,
      r \in ResourceListings }

\* -------------------------------------------------------------------- Init
Init ==
  /\ connection = "undefined"
  /\ pc = "idle"
  /\ cycle = 0
  /\ accounts = <<>>
  /\ acctPages = 0
  /\ task = <<>>
  /\ stacks = <<>>
  /\ origin = <<>>
  /\ listed = {}
  /\ applied = <<>>
  /\ timeout = FALSE
  /\ err = "none"
  /\ released = 0
  /\ prevProbe = FALSE
  /\ rlIn = NoLocation
  /\ rlOut = [p \in Processors |-> NotCalled]
  /\ pairIn = << NoLocation, NoLocation >>
  /\ pairOut = [k \in 1..2 |-> [p \in Processors |-> NotCalled]]

\* ----------------------------------------------------------------- actions
\* connect(connection): keeps the connection and registers the task
Connect ==
  /\ connection = "undefined"
  /\ connection' = "connected"
  /\ UNCHANGED rlVars
  /\ UNCHANGED crossVars
  /\ UNCHANGED << pc, cycle, accounts, acctPages, task, stacks, origin,
                  listed, applied, timeout, err >>

\* the target of the entry pushed for the stack order-service of the first
\* account listed
ProbeTarget == Target(1, RoleArn(1), "order-service")

\* the targets of the entries refresh has submitted in this cycle
SnapshotTargets ==
  UNION { { applied[k].entities[i].entity.target
            : i \in DOMAIN applied[k].entities }
          : k \in DOMAIN applied }

\* the task runner invokes fn on a provider that keeps the stacks array from
\* one refresh to the next
RunTask_KeepsStacks ==
  /\ connection = "connected"
  /\ \/ pc \in {"idle", "done"}
     \/ pc = "scanning" /\ timeout
  /\ cycle < MaxCycles
  /\ released' = IF pc = "scanning" THEN released + 1 ELSE released
  /\ prevProbe' = (prevProbe \/ ProbeTarget \in SnapshotTargets)
  /\ cycle' = cycle + 1
  /\ pc' = "listing"
  /\ accounts' = <<>>
  /\ acctPages' = 0
  /\ task' = <<>>
  /\ listed' = {}
  /\ applied' = <<>>
  /\ timeout' = FALSE
  /\ err' = "none"
  /\ UNCHANGED rlVars
  /\ UNCHANGED << connection, stacks, origin >>

\* the task runner invokes fn, after the previous run has returned or has
\* been released at its timeout: refresh starts and requests the first page
\* of the account listing
RunTask ==
  /\ connection = "connected"
  /\ \/ pc \in {"idle", "done"}
     \/ pc = "scanning" /\ timeout
  /\ cycle < MaxCycles
  /\ released' = IF pc = "scanning" THEN released + 1 ELSE released
  /\ prevProbe' = (prevProbe \/ ProbeTarget \in SnapshotTargets)
  /\ cycle' = cycle + 1
  /\ pc' = "listing"
  /\ accounts' = <<>>
  /\ acctPages' = 0
  /\ task' = <<>>
  /\ stacks' = <<>>
  /\ origin' = <<>>
  /\ listed' = {}
  /\ applied' = <<>>
  /\ timeout' = FALSE
  /\ err' = "none"
  /\ UNCHANGED rlVars
  /\ UNCHANGED connection

\* a run of fn that the task runner released at its timeout returns: its
\* mappers have settled and its own snapshot has gone to applyMutation
ReleasedReturns ==
  /\ released > 0
  /\ released' = released - 1
  /\ UNCHANGED rlVars
  /\ UNCHANGED << connection, pc, cycle, accounts, acctPages, task, stacks,
                  origin, listed, applied, timeout, err, prevProbe >>

\* a page of paginateListAccounts arrives: its accounts are pushed; after the
\* last page pMap is entered
ListAccountsPage ==
  /\ pc = "listing"
  /\ \E k \in 0..(MaxInventory - Len(accounts)), more \in BOOLEAN :
       /\ more => acctPages + 1 < MaxAcctPages
       /\ accounts' = accounts \o [i \in 1..k |-> Len(accounts) + i]
       /\ acctPages' = IF more THEN acctPages + 1 ELSE 0
       /\ pc' = IF more THEN "listing" ELSE "scanning"
       /\ task' = IF more THEN task
                  ELSE [a \in 1..(Len(accounts) + k) |-> Pending]
  /\ UNCHANGED rlVars
  /\ UNCHANGED crossVars
  /\ UNCHANGED << connection, cycle, stacks, origin, listed, applied,
                  timeout, err >>

\* the listing failure logged inside refresh, which goes on to scan the
\* accounts listed so far
ListAccountsThrows_Swallowed ==
  /\ pc = "listing"
  /\ pc' = "scanning"
  /\ err' = "listAccounts"
  /\ acctPages' = 0
  /\ task' = [a \in 1..Len(accounts) |-> Pending]
  /\ UNCHANGED rlVars
  /\ UNCHANGED crossVars
  /\ UNCHANGED << connection, cycle, accounts, stacks, origin, listed,
                  applied, timeout >>

\* the listing failure leaving fn as a rejection: the scheduled task fails
ListAccountsThrows_Uncaught ==
  /\ pc = "listing"
  /\ pc' = "failed"
  /\ err' = "listAccounts"
  /\ UNCHANGED rlVars
  /\ UNCHANGED crossVars
  /\ UNCHANGED << connection, cycle, accounts, acctPages, task, stacks,
                  origin, listed, applied, timeout >>

\* a page of paginateListAccounts fails: refresh throws, fn's catch logs
ListAccountsThrows ==
  /\ pc = "listing"
  /\ pc' = "done"
  /\ err' = "listAccounts"
  /\ UNCHANGED rlVars
  /\ UNCHANGED crossVars
  /\ UNCHANGED << connection, cycle, accounts, acctPages, task, stacks,
                  origin, listed, applied, timeout >>

\* a push that writes back what the mapper appended to its own empty copy
push_LostUpdate(array, items) == items

\* stacks.push, once per kept stack of a page: the calls of one page run
\* without an await between them
push(array, items) == array \o items

\* pMap calls the mapper of the next account: the client factory of the first
\* region, which may throw, then the first describe-stacks request
StartTask(a) ==
  /\ pc = "scanning"
  /\ CanStart(a)
  /\ \E throws \in BOOLEAN :
       task' = [task EXCEPT ![a] = EnterRegion(1, throws)]
  /\ UNCHANGED rlVars
  /\ UNCHANGED crossVars
  /\ UNCHANGED << connection, pc, cycle, accounts, acctPages, stacks, origin,
                  listed, applied, timeout, err >>

\* a describe-stacks page arrives at the mapper of account a: its stacks are
\* walked in order; the first out-of-scope stack returns from the mapper
PageResponse(a) ==
  /\ pc = "scanning"
  /\ a \in Running
  /\ ~\E b \in DOMAIN task : CanStart(b)
  /\ \E page \in Pages(a, task[a].r), more \in BOOLEAN, throws \in BOOLEAN :
       LET r == task[a].r
           roleArn == RoleArn(a)
           kept == Pushed(page)
       IN /\ more => page # <<>>
          /\ throws => (FirstOutOfScope(page) = 0 /\ ~more /\ r < Len(regions))
          /\ listed' = listed \cup {Listed(a, r, page[i]) : i \in DOMAIN page}
          /\ stacks' = push(stacks, [i \in DOMAIN kept |->
                                        LocationEntry(a, roleArn, kept[i])])
          /\ origin' = origin \o [i \in DOMAIN kept |-> Listed(a, r, kept[i])]
          /\ task' = [task EXCEPT ![a] =
                        IF FirstOutOfScope(page) # 0 THEN Settled("returned")
                        ELSE IF more THEN Fetching(r)
                        ELSE EnterRegion(r + 1, throws)]
  /\ UNCHANGED rlVars
  /\ UNCHANGED crossVars
  /\ UNCHANGED << connection, pc, cycle, accounts, acctPages, applied,
                  timeout, err >>

\* the catch of the mapper taking back what its account had pushed
PageThrows_RollsBack(a) ==
  /\ pc = "scanning"
  /\ a \in Running
  /\ ~\E b \in DOMAIN task : CanStart(b)
  /\ task' = [task EXCEPT ![a] = Settled("failed")]
  /\ LET Others(e) == e.entity.target.accountId # a
     IN stacks' = SelectSeq(stacks, Others)
  /\ UNCHANGED rlVars
  /\ UNCHANGED crossVars
  /\ UNCHANGED << connection, pc, cycle, accounts, acctPages, origin,
                  listed, applied, timeout, err >>

\* a describe-stacks request of account a fails: the mapper's catch logs
PageThrows(a) ==
  /\ pc = "scanning"
  /\ a \in Running
  /\ ~\E b \in DOMAIN task : CanStart(b)
  /\ task' = [task EXCEPT ![a] = Settled("failed")]
  /\ UNCHANGED rlVars
  /\ UNCHANGED crossVars
  /\ UNCHANGED << connection, pc, cycle, accounts, acctPages, stacks, origin,
                  listed, applied, timeout, err >>

\* applyMutation called without awaiting pMap
ApplyMutation_NotAwaited ==
  /\ pc = "scanning"
  /\ applied' = Append(applied, [type |-> "full", entities |-> stacks])
  /\ pc' = "done"
  /\ UNCHANGED rlVars
  /\ UNCHANGED crossVars
  /\ UNCHANGED << connection, cycle, accounts, acctPages, task, stacks,
                  origin, listed, timeout, err >>

\* pMap has resolved: this.connection?.applyMutation({type: 'full', ...}),
\* whose rejection fn's catch logs
ApplyMutation ==
  /\ pc = "scanning"
  /\ Unsettled = {}
  /\ \E rejects \in BOOLEAN :
       /\ applied' = IF connection = "connected"
                     THEN Append(applied, [type |-> "full", entities |-> stacks])
                     ELSE applied
       /\ err' = IF rejects /\ connection = "connected"
                 THEN "applyMutation" ELSE err
  /\ pc' = "done"
  /\ UNCHANGED rlVars
  /\ UNCHANGED crossVars
  /\ UNCHANGED << connection, cycle, accounts, acctPages, task, stacks,
                  origin, listed, timeout >>

\* the timeout of the scheduled task runner elapses during a run of fn; fn
\* takes no abort signal and refresh reads none
Timeout ==
  /\ pc = "scanning"
  /\ Running # {}
  /\ ~\E b \in DOMAIN task : CanStart(b)
  /\ ~timeout
  /\ timeout' = TRUE
  /\ UNCHANGED rlVars
  /\ UNCHANGED crossVars
  /\ UNCHANGED << connection, pc, cycle, accounts, acctPages, task, stacks,
                  origin, listed, applied, err >>

Next ==
  \/ Connect
  \/ RunTask
  \/ ListAccountsPage
  \/ ListAccountsThrows
  \/ \E a \in 1..MaxInventory : StartTask(a)
  \/ \E a \in 1..MaxInventory : PageResponse(a)
  \/ \E a \in 1..MaxInventory : PageThrows(a)
  \/ ApplyMutation
  \/ Timeout
  \/ ReleasedReturns

Spec == Init /\ [][Next]_vars

\* ------------------------------------------ readLocation on bounded inputs
InitRL ==
  /\ connection = "undefined"
  /\ pc = "idle"
  /\ cycle = 0
  /\ accounts = <<>>
  /\ acctPages = 0
  /\ task = <<>>
  /\ stacks = <<>>
  /\ origin = <<>>
  /\ listed = {}
  /\ applied = <<>>
  /\ timeout = FALSE
  /\ err = "none"
  /\ released = 0
  /\ prevProbe = FALSE
  /\ rlIn \in RLInputs
  /\ rlOut = [p \in Processors |-> NotCalled]
  /\ pairIn = << NoLocation, NoLocation >>
  /\ pairOut = [k \in 1..2 |-> [p \in Processors |-> NotCalled]]

\* the catalog engine calls TechMaturityCatalogProcessor.readLocation
CallReadLocation ==
  /\ rlIn.type # "none"
  /\ rlOut["TechMaturityCatalogProcessor"].ret = "not called"
  /\ rlOut' = [rlOut EXCEPT !["TechMaturityCatalogProcessor"] =
                  ReadLocation(rlIn)]
  /\ UNCHANGED << provVars, rlIn, pairVars >>

\* the catalog engine calls TechMaturityCatalogProcessor2.readLocation
CallReadLocation2 ==
  /\ rlIn.type # "none"
  /\ rlOut["TechMaturityCatalogProcessor2"].ret = "not called"
  /\ rlOut' = [rlOut EXCEPT !["TechMaturityCatalogProcessor2"] =
                  ReadLocation2(rlIn)]
  /\ UNCHANGED << provVars, rlIn, pairVars >>

NextRL ==
  \/ CallReadLocation
  \/ CallReadLocation2

SpecRL == InitRL /\ [][NextRL]_vars

\* ------------------------------------- two reads, of two located stacks
\* stack ids as DescribeStacks answers them: the stack of StackIds, the stack
\* created again under the same name, and a stack of another account and
\* region
PairStackIds ==
  StackIds \cup
    { "arn:aws:cloudformation:eu-west-1:111111111111:stack/order-service/2",
      "arn:aws:cloudformation:us-east-1:222222222222:stack/order-service/1" }

\* the account and region a location names, and the type and target format
\* of either processor
PairLocations ==
  { [ type |-> ty.type,
      target |-> [ format |-> ty.format, accountId |-> o.account,
                   roleArn |-> RoleArn(o.account),
                   stackName |-> "order-service", region |-> o.region ] ]
    : ty \in { [type |-> CloudFormationStackLocationType, format |-> "json"],
               [type |-> ResourceType, format |-> "at"] },
      o \in { [account |-> "111111111111", region |-> regions[1]],
              [account |-> "222222222222", region |-> regions[2]] } }

\* a complete stack, with or without tags, whose template declares two
\* functions and a queue, and whose resources are listed on one page
PairInputs ==
  { [ type |-> l.type, target |-> l.target,
      describe |-> [ throws |-> FALSE,
                     Stacks |-> << [ StackId |-> id, StackStatus |-> st,
                                     Tags |-> tags ] >> ],
      template |-> [ throws |-> FALSE, TemplateBody |-> "present",
                     Resources |->
                       [r \in {"F1", "F2", "Q"} |->
                          IF r = "Q" THEN Queue ELSE Lambda("nodejs18.x")] ],
      resources |-> [ pages |-> << page >>, throwsAfter |-> FALSE ] ]
    : l \in PairLocations, id \in PairStackIds,
      st \in {"UPDATE_COMPLETE", "DELETE_COMPLETE"},
      tags \in { t \in TagLists : Len(t) \in {0, 3} },
      page \in { ps \in [1..2 -> Summaries] :
                   ps[1].LogicalResourceId = "F1" /\ ps[2] # ps[1] } }

InitPair ==
  /\ connection = "undefined"
  /\ pc = "idle"
  /\ cycle = 0
  /\ accounts = <<>>
  /\ acctPages = 0
  /\ task = <<>>
  /\ stacks = <<>>
  /\ origin = <<>>
  /\ listed = {}
  /\ applied = <<>>
  /\ timeout = FALSE
  /\ err = "none"
  /\ released = 0
  /\ prevProbe = FALSE
  /\ rlIn = NoLocation
  /\ rlOut = [p \in Processors |-> NotCalled]
  /\ pairIn \in [1..2 -> PairInputs]
  /\ pairOut = [k \in 1..2 |-> [p \in Processors |-> NotCalled]]

\* the catalog engine calls TechMaturityCatalogProcessor.readLocation on the
\* k-th location
CallReadLocationOn(k) ==
  /\ pairOut[k]["TechMaturityCatalogProcessor"].ret = "not called"
  /\ pairOut' = [pairOut EXCEPT ![k]["TechMaturityCatalogProcessor"] =
                    ReadLocation(pairIn[k])]
  /\ UNCHANGED << provVars, rlIn, rlOut, pairIn >>

\* the catalog engine calls TechMaturityCatalogProcessor2.readLocation on the
\* k-th location
CallReadLocation2On(k) ==
  /\ pairOut[k]["TechMaturityCatalogProcessor2"].ret = "not called"
  /\ pairOut' = [pairOut EXCEPT ![k]["TechMaturityCatalogProcessor2"] =
                    ReadLocation2(pairIn[k])]
  /\ UNCHANGED << provVars, rlIn, rlOut, pairIn >>

NextPair ==
  \/ \E k \in 1..2 : CallReadLocationOn(k)
  \/ \E k \in 1..2 : CallReadLocation2On(k)

SpecPair == InitPair /\ [][NextPair]_vars

\* ------------------------------------------------------------------ claims
\* the statuses of the allow-list, as a set
InScopeSet == {IN_SCOPE_STACK_STATUSES[i] : i \in DOMAIN IN_SCOPE_STACK_STATUSES}

\* the listed stack l was pushed and is entry i of every submitted snapshot
InSnapshot(l) ==
  \A k \in DOMAIN applied :
    \E i \in DOMAIN applied[k].entities :
      /\ i \in DOMAIN origin
      /\ origin[i] = l
      /\ applied[k].entities[i].entity.type = "cloudformation-stack"
      /\ applied[k].entities[i].entity.target.accountId = l.account
      /\ applied[k].entities[i].entity.target.stackName = l.StackName

\* C1: when the pipeline of one account fails, the fan-out is not rejected
\* (the refresh goes on to submit its mutation) and every in-scope stack
\* listed for every other account is in the submitted snapshot.
C1_FailureIsolated ==
  (pc = "done" /\ err # "listAccounts")
    => \A a \in DOMAIN task :
         task[a].out = "failed"
           => /\ Len(applied) = 1
              /\ \A l \in listed :
                   (l.account # a /\ l.StackStatus \in InScopeSet)
                     => InSnapshot(l)

\* C2: a failure of the account listing, on the first page or a later one,
\* ends the refresh before any account is scanned and without a call of
\* applyMutation.
C2_ListingFailureSubmitsNothing ==
  err = "listAccounts"
    => /\ applied = <<>>
       /\ task = <<>>
       /\ stacks = <<>>
       /\ listed = {}

\* C2 witness: the listing failed on a later page, after accounts were listed
C2_Witness ==
  /\ err = "listAccounts"
  /\ pc = "done"
  /\ acctPages >= 1
  /\ Len(accounts) >= 2

\* C3: a cycle whose task timeout elapsed while account mappers were in
\* flight submits no mutation, neither then nor later.
C3_TimedOutCycleDiscarded ==
  timeout => applied = <<>>

\* C4: no entry of a submitted snapshot was pushed for a listed stack whose
\* status is outside IN_SCOPE_STACK_STATUSES.
C4_OutOfScopeNeverEmitted ==
  /\ Len(origin) = Len(stacks)
  /\ \A k \in DOMAIN applied : applied[k].entities = stacks
  /\ \A l \in listed :
       l.StackStatus \notin InScopeSet
         => \A i \in DOMAIN origin : origin[i] # l

\* C4 witness: a snapshot with an entry was submitted in a cycle that listed
\* an out-of-scope stack
C4_Witness ==
  /\ Len(applied) = 1
  /\ Len(applied[1].entities) >= 1
  /\ \E l \in listed : l.StackStatus = "DELETE_COMPLETE"

\* C5: when the scan of an account raises no error, every in-scope stack
\* listed for it is in the submitted snapshot, whether or not an out-of-scope
\* stack was listed before it.
C5_OnlyThatStackDropped ==
  pc = "done"
    => \A a \in DOMAIN task :
         task[a].out \in {"ok", "returned"}
           => \A l \in listed :
                (l.account = a /\ l.StackStatus \in InScopeSet)
                  => (applied # <<>> /\ InSnapshot(l))

\* C7: at every instant at most 3 account mappers are started and not settled.
C7_AtMostThreeScans ==
  Cardinality({a \in DOMAIN task : task[a].st = "running"}) <= 3

\* C7 witness: three mappers run while a fourth account waits
C7_Witness ==
  /\ Cardinality({a \in DOMAIN task : task[a].st = "running"}) = 3
  /\ \E a \in DOMAIN task : task[a].st = "pending"

\* C8: applyMutation is called only when the mapper of every listed account
\* has settled.
C8_MutationAfterAllSettled ==
  applied # <<>>
    => /\ DOMAIN task = 1..Len(accounts)
       /\ \A a \in DOMAIN task : task[a].st = "settled"

\* C8 witness: the mutation was submitted after one account succeeded, one
\* failed and one ended early
C8_Witness ==
  /\ applied # <<>>
  /\ \E a, b, c \in DOMAIN task :
       /\ task[a].out = "ok"
       /\ task[b].out = "failed"
       /\ task[c].out = "returned"

\* C9: a cycle submits at most one mutation, of type 'full', all of whose
\* entries carry the location key 'tech-maturity-provider'.
C9_OneFullMutation ==
  /\ Len(applied) <= 1
  /\ \A k \in DOMAIN applied :
       /\ applied[k].type = "full"
       /\ \A i \in DOMAIN applied[k].entities :
            applied[k].entities[i].locationKey = "tech-maturity-provider"

\* C9 witness: a mutation with entries of two accounts was submitted
C9_Witness ==
  /\ Len(applied) = 1
  /\ \E i, j \in DOMAIN applied[1].entities :
       applied[1].entities[i].entity.target.accountId
         # applied[1].entities[j].entity.target.accountId

\* the location type a processor reads
OwnType(p) ==
  IF p = "TechMaturityCatalogProcessor" THEN "cloudformation-stack"
  ELSE "cdk-cloudformation-stack"

\* the processor p has read a location of its own type whose target it
\* decodes
ReadOwn(p) ==
  /\ rlOut[p].ret # "not called"
  /\ rlIn.type = OwnType(p)
  /\ rlIn.target.format = (IF p = "TechMaturityCatalogProcessor" THEN "json"
                           ELSE "at")

\* C6: readLocation of either processor, on a location of its own type whose
\* stack has status DELETE_COMPLETE, emits no entity.
C6_DeletedStackEmitsNothing ==
  \A p \in Processors :
    ( /\ ReadOwn(p)
      /\ ~rlIn.describe.throws
      /\ rlIn.describe.Stacks # <<>>
      /\ rlIn.describe.Stacks[1].StackStatus = "DELETE_COMPLETE" )
      => rlOut[p].emitted = <<>>

\* the function resources listed for the stack that the template declares
\* with runtime rt
FunctionsWithRuntime(rt) ==
  LET all == Flatten(rlIn.resources.pages)
  IN { i \in DOMAIN all :
         /\ all[i].ResourceType = "AWS::Lambda::Function"
         /\ all[i].LogicalResourceId \in DOMAIN rlIn.template.Resources
         /\ rlIn.template.Resources[all[i].LogicalResourceId].Runtime = rt }

\* C10: when a processor has read a stack in which two function resources
\* declare the same runtime, exactly one of the emitted entities is named
\* 'aws-lambda-runtime-<runtime>'.
C10_OneRuntimeEntityPerRuntime ==
  \A p \in Processors :
    ( /\ ReadOwn(p)
      /\ rlOut[p].ret = "true"
      /\ ~rlIn.describe.throws
      /\ rlIn.describe.Stacks # <<>>
      /\ rlIn.describe.Stacks[1].StackStatus = "UPDATE_COMPLETE"
      /\ ~rlIn.template.throws
      /\ rlIn.template.TemplateBody = "present"
      /\ ~rlIn.resources.throwsAfter )
      => \A rt \in {"nodejs18.x", "python3.9"} :
           Cardinality(FunctionsWithRuntime(rt)) >= 2
             => Cardinality({ i \in DOMAIN rlOut[p].emitted :
                                rlOut[p].emitted[i].name
                                  = "aws-lambda-runtime-" \o rt }) = 1

\* the entities of type ty the processor p emitted
EmittedOfType(p, ty) ==
  { i \in DOMAIN rlOut[p].emitted : rlOut[p].emitted[i].spec.type = ty }

\* the processor p has read, without a failing request, a location of its own
\* type whose stack is in scope and whose template is present
ReadInScopeStack(p) ==
  /\ ReadOwn(p)
  /\ ~rlIn.describe.throws
  /\ rlIn.describe.Stacks # <<>>
  /\ rlIn.describe.Stacks[1].StackStatus = "UPDATE_COMPLETE"
  /\ ~rlIn.template.throws
  /\ rlIn.template.TemplateBody = "present"
  /\ ~rlIn.resources.throwsAfter
  /\ \A pg \in DOMAIN rlIn.resources.pages :
       \A i \in DOMAIN rlIn.resources.pages[pg] :
         rlIn.resources.pages[pg][i].LogicalResourceId
           \in DOMAIN rlIn.template.Resources

\* C11: for an in-scope stack whose template is present, readLocation emits
\* exactly one StackEntity and, for each listed resource of type
\* AWS::Lambda::Function on any page, exactly one FunctionEntity together
\* with the RuntimeEntity it depends on; resources of other types produce no
\* entity.
C11_EntitiesPerStack ==
  \A p \in Processors :
    ReadInScopeStack(p)
      => LET all == Flatten(rlIn.resources.pages)
             out == rlOut[p].emitted
             fns == EmittedOfType(p, "aws-lambda-function")
         IN /\ Cardinality(EmittedOfType(p, "aws-cloudformation-stack")) = 1
            /\ \A r \in DOMAIN all :
                 Cardinality({ i \in fns :
                                 out[i].annotations.cloudFormationLogicalId
                                   = all[r].LogicalResourceId })
                   = (IF all[r].ResourceType = "AWS::Lambda::Function"
                      THEN 1 ELSE 0)
            /\ \A i \in fns :
                 \E j \in EmittedOfType(p, "aws-lambda-runtime") :
                   out[i].spec.dependsOn = <<"resource:" \o out[j].name>>
            /\ Len(out) = Cardinality(EmittedOfType(p, "aws-cloudformation-stack"))
                            + Cardinality(fns)
                            + Cardinality(EmittedOfType(p, "aws-lambda-runtime"))

\* the stack id DescribeStacks answered in the k-th read
PairStackId(k) == pairIn[k].describe.Stacks[1].StackId

\* the entities of type ty the processor p emitted in the k-th read
PairEmitted(k, p, ty) ==
  { i \in DOMAIN pairOut[k][p].emitted :
      pairOut[k][p].emitted[i].spec.type = ty }

\* C12: two reads that agree on the stack id give the StackEntity the same
\* identity, and function entities of the same logical id the same identity,
\* whatever account, region, role ARN, tags and stack status the reads
\* differ in.
C12_IdentityFromStackIdAlone ==
  \A p \in Processors :
    PairStackId(1) = PairStackId(2)
      => /\ \A i \in PairEmitted(1, p, "aws-cloudformation-stack"),
              j \in PairEmitted(2, p, "aws-cloudformation-stack") :
              pairOut[1][p].emitted[i].name = pairOut[2][p].emitted[j].name
         /\ \A i \in PairEmitted(1, p, "aws-lambda-function"),
              j \in PairEmitted(2, p, "aws-lambda-function") :
              pairOut[1][p].emitted[i].annotations.cloudFormationLogicalId
                = pairOut[2][p].emitted[j].annotations.cloudFormationLogicalId
                => pairOut[1][p].emitted[i].name
                     = pairOut[2][p].emitted[j].name

\* C12 witness: both reads emitted the stack entity and a function entity of
\* one stack id, from locations of different account, region and role ARN,
\* with different tags and statuses
C12_Witness ==
  /\ PairStackId(1) = PairStackId(2)
  /\ pairIn[1].target.accountId # pairIn[2].target.accountId
  /\ pairIn[1].target.region # pairIn[2].target.region
  /\ pairIn[1].target.roleArn # pairIn[2].target.roleArn
  /\ pairIn[1].describe.Stacks[1].Tags # pairIn[2].describe.Stacks[1].Tags
  /\ pairIn[1].describe.Stacks[1].StackStatus
       # pairIn[2].describe.Stacks[1].StackStatus
  /\ \A k \in 1..2 :
       /\ PairEmitted(k, "TechMaturityCatalogProcessor",
                      "aws-cloudformation-stack") # {}
       /\ PairEmitted(k, "TechMaturityCatalogProcessor",
                      "aws-lambda-function") # {}

\* the function entities the processor p emitted in the two reads, each as
\* the read and its index among the emitted entities
PairFunctions(p) ==
  UNION { { <<k, i>> : i \in PairEmitted(k, p, "aws-lambda-function") }
          : k \in 1..2 }

\* the logical resource id of such a function entity
PairLogicalId(p, ki) ==
  pairOut[ki[1]][p].emitted[ki[2]].annotations.cloudFormationLogicalId

\* C13: function entities emitted for distinct (stack id, logical resource
\* id) pairs, in one read or in two, have distinct identities, the digest
\* being injective on its input.
C13_IdentityUniquePerPair ==
  \A p \in Processors :
    \A f \in PairFunctions(p), g \in PairFunctions(p) :
      << PairStackId(f[1]), PairLogicalId(p, f) >>
          # << PairStackId(g[1]), PairLogicalId(p, g) >>
        => pairOut[f[1]][p].emitted[f[2]].name
             # pairOut[g[1]][p].emitted[g[2]].name

\* C13 witness: a processor emitted, for two stacks of different id, a
\* function entity of the logical id F1, and for one of the stacks a second
\* function entity
C13_Witness ==
  /\ PairStackId(1) # PairStackId(2)
  /\ \E p \in Processors :
       /\ \E f \in PairFunctions(p), g \in PairFunctions(p) :
            /\ f[1] = 1 /\ g[1] = 2
            /\ PairLogicalId(p, f) = "F1" /\ PairLogicalId(p, g) = "F1"
       /\ \E f \in PairFunctions(p), g \in PairFunctions(p) :
            /\ f[1] = g[1]
            /\ PairLogicalId(p, f) = "F1" /\ PairLogicalId(p, g) = "F2"

\* C14: the scheduled task never fails: whatever refresh throws, in the
\* account listing or in applyMutation, is logged by the catch of the task
\* function, which returns normally, so that the task runner can invoke the
\* next cycle.
C14_TaskNeverFails ==
  /\ pc \in {"idle", "listing", "scanning", "done"}
  /\ err # "none" => pc = "done"
  /\ (pc = "done" /\ cycle < MaxCycles) => ENABLED RunTask

\* C14 witness: fn has returned after its catch logged a rejection of
\* applyMutation, and the task runner can invoke the next cycle
C14_Witness ==
  /\ err = "applyMutation"
  /\ pc = "done"
  /\ cycle = 1
  /\ ENABLED RunTask

\* the targets of the in-scope stacks describe-stacks listed in this cycle
ListedTargets ==
  { Target(l.account, RoleArn(l.account), l.StackName)
    : l \in {x \in listed : x.StackStatus \in InScopeSet} }

\* C15: over any sequence of cycles, failed ones included, the snapshot a
\* cycle submits holds only entries of stacks listed in that cycle; an entry
\* of an earlier cycle's snapshot whose stack this cycle does not list is not
\* in this cycle's mutation.
C15_SnapshotOfThisCycleOnly ==
  /\ SnapshotTargets \subseteq ListedTargets
  /\ (prevProbe /\ ProbeTarget \notin ListedTargets)
       => ProbeTarget \notin SnapshotTargets

\* C15 witness: a later cycle has submitted a snapshot with entries, in
\* which the stack of ProbeTarget, an entry of an earlier snapshot, was not
\* listed
C15_Witness ==
  /\ cycle >= 2
  /\ prevProbe
  /\ ProbeTarget \notin ListedTargets
  /\ SnapshotTargets # {}

\* the runs of fn that have started refresh and have not returned
InFlight == released + (IF pc \in {"listing", "scanning"} THEN 1 ELSE 0)

\* C16: at no time are two refresh cycles in flight together; an invocation
\* arriving while a refresh runs, one that outlived the task timeout
\* included, is rejected or queued.
C16_NoOverlappingCycles == InFlight <= 1

\* C17: under every interleaving of the account mappers, the snapshot refresh
\* submits is exactly the entries the mappers appended, in the order of
\* appending: none is lost and none occurs more often than it was appended.
C17_SnapshotIsWhatWasAppended ==
  \A k \in DOMAIN applied :
    /\ Len(applied[k].entities) = Len(origin)
    /\ \A i \in DOMAIN origin :
         /\ applied[k].entities[i].locationKey = "tech-maturity-provider"
         /\ applied[k].entities[i].entity.type = "cloudformation-stack"
         /\ applied[k].entities[i].entity.target.accountId = origin[i].account
         /\ applied[k].entities[i].entity.target.stackName
              = origin[i].StackName

\* C17 witness: the submitted snapshot holds entries two mappers appended in
\* turns, the second account's first
C17_Witness ==
  /\ applied # <<>>
  /\ Len(origin) >= 2
  /\ origin[1].account = 2
  /\ origin[2].account = 1

\* C18: whenever a FunctionEntity emitted by readLocation lists its
\* StackEntity in dependencyOf, the StackEntity emitted for the stack lists
\* that function in its dependsOn, and does so once.
C18_StackFunctionEdgeBothWays ==
  LET p == "TechMaturityCatalogProcessor"
      out == rlOut[p].emitted
  IN \A f \in EmittedOfType(p, "aws-lambda-function") :
       \A s \in EmittedOfType(p, "aws-cloudformation-stack") :
         (\E d \in DOMAIN out[f].spec.dependencyOf.items :
            out[f].spec.dependencyOf.items[d] = "resource:" \o out[s].name)
           => Cardinality({ d \in DOMAIN out[s].spec.dependsOn :
                              out[s].spec.dependsOn[d]
                                = "resource:" \o out[f].name }) = 1

\* the value of the project tag of the stack read, or "undefined"
ProjectTag ==
  TagValue(rlIn.describe.Stacks[1].Tags, "shersoft-ltd:backstage:project")

\* C19: dependencyOf is always a list of entity references: with the project
\* tag on the stack, the StackEntity's is the list of the one tag value and
\* each FunctionEntity's is the project value followed by the stack
\* reference; without the tag they are the empty list and the list of the
\* stack reference.
C19_DependencyOfIsAList ==
  LET p == "TechMaturityCatalogProcessor"
      out == rlOut[p].emitted
      project == IF ProjectTag = "undefined" THEN <<>> ELSE <<ProjectTag>>
  IN ReadInScopeStack(p)
       => /\ \A s \in EmittedOfType(p, "aws-cloudformation-stack") :
               /\ out[s].spec.dependencyOf.isArray
               /\ out[s].spec.dependencyOf.items = project
          /\ \A f \in EmittedOfType(p, "aws-lambda-function") :
               /\ out[f].spec.dependencyOf.isArray
               /\ out[f].spec.dependencyOf.items
                    = project \o << "resource:aws-cfn-shake256("
                                      \o rlIn.describe.Stacks[1].StackId
                                      \o ")" >>

\* the value of the tag key of the stack read, or the fallback
TagOr(key, fallback) ==
  LET v == TagValue(rlIn.describe.Stacks[1].Tags, key)
  IN IF v = "undefined" THEN fallback ELSE v

\* C20: every StackEntity and FunctionEntity emitted for a stack has the
\* lifecycle and the owner of the stack's lifecycle and owner tags when the
\* tags are present, and 'production' and 'platform' when they are absent.
C20_LifecycleAndOwnerFromTags ==
  \A p \in Processors :
    ReadInScopeStack(p)
      => \A i \in EmittedOfType(p, "aws-cloudformation-stack")
                    \cup EmittedOfType(p, "aws-lambda-function") :
           /\ rlOut[p].emitted[i].spec.lifecycle
                = TagOr("shersoft-ltd:backstage:lifecycle", "production")
           /\ rlOut[p].emitted[i].spec.owner
                = TagOr("shersoft-ltd:backstage:owner", "platform")

\* the processor p has read a location of its own type whose stack is
\* complete and for which GetTemplate answered without a template body
ReadStackWithoutTemplate(p) ==
  /\ ReadOwn(p)
  /\ ~rlIn.describe.throws
  /\ rlIn.describe.Stacks # <<>>
  /\ rlIn.describe.Stacks[1].StackStatus = "UPDATE_COMPLETE"
  /\ ~rlIn.template.throws
  /\ rlIn.template.TemplateBody = "absent"

\* C21: when the template body of a stack is absent, readLocation emits no
\* entity for the stack and returns true without raising.
C21_MissingTemplateIsolated ==
  \A p \in Processors :
    ReadStackWithoutTemplate(p)
      => /\ rlOut[p].ret = "true"
         /\ rlOut[p].emitted = <<>>

\* the positions of seq whose element names account a and stack name n
EntriesOf(seq, a, n) ==
  { j \in DOMAIN seq :
      /\ seq[j].entity.target.accountId = a
      /\ seq[j].entity.target.stackName = n }

\* C22: when the scan of an account fails part-way, the entries the account
\* appended before the failure stay in the stacks array and are in the
\* snapshot refresh submits.
C22_AppendedBeforeFailureKept ==
  \A a \in DOMAIN task :
    task[a].out = "failed"
      => \A i \in DOMAIN origin :
           origin[i].account = a
             => /\ EntriesOf(stacks, a, origin[i].StackName) # {}
                /\ \A k \in DOMAIN applied :
                     EntriesOf(applied[k].entities, a, origin[i].StackName)
                       # {}

\* C22 witness: refresh has submitted its snapshot after the scan of an
\* account that had appended an entry failed
C22_Witness ==
  /\ applied # <<>>
  /\ \E a \in DOMAIN task :
       /\ task[a].out = "failed"
       /\ \E i \in DOMAIN origin : origin[i].account = a

\* one step of the mapper of account a: it starts in the first region, stays
\* in its region or moves to the next one, and the page it consumes is a
\* page of the region it was awaiting
SequentialStep(a) ==
  /\ (task[a].st = "pending" /\ task'[a].st = "running") => task'[a].r = 1
  /\ (task[a].st = "running" /\ task'[a].st = "running")
       => task'[a].r \in {task[a].r, task[a].r + 1}
  /\ \A l \in listed' \ listed :
       l.account = a
         => /\ task[a].st = "running"
            /\ l.region = regions[task[a].r]

\* C23: within the task of one account the regions are scanned in the
\* configured order, a region is not started before the last page of the
\* region before it has been consumed, and the account has at most one
\* describe-stacks request outstanding: every page consumed is a page of the
\* one region the task awaits.
C23_AccountScanSequential ==
  [][\A a \in DOMAIN task \cap DOMAIN task' : SequentialStep(a)]_vars

\* C23 witness: a mapper awaits a page of the second region after a stack of
\* the first region was listed for its account
C23_Witness ==
  \E a \in DOMAIN task :
    /\ task[a].st = "running"
    /\ task[a].r = 2
    /\ \E l \in listed : l.account = a /\ l.region = regions[1]

\* the location read is an entry refresh pushes: the provider's location type
\* with the target built for a discovered stack
IsProviderEntry ==
  /\ rlIn.type = "cloudformation-stack"
  /\ \E a \in AccountIds, n \in StackNames :
       rlIn.target
         = LocationEntry(a, RoleArn(a),
                         [StackName |-> n, StackStatus |-> "UPDATE_COMPLETE"]
                        ).entity.target

\* C24: TechMaturityCatalogProcessor.readLocation reads every location entry
\* refresh produces: it decodes the target into the account id, role ARN,
\* stack name and region of the stack and goes on to the stack lookup instead
\* of failing on the target.
C24_ProviderEntriesReadable ==
  ( /\ IsProviderEntry
    /\ rlOut["TechMaturityCatalogProcessor"].ret # "not called" )
    => /\ rlOut["TechMaturityCatalogProcessor"].ret = "true"
       /\ ParseJsonTarget(rlIn.target).ok
       /\ ( /\ ~rlIn.describe.throws
            /\ rlIn.describe.Stacks # <<>>
            /\ rlIn.describe.Stacks[1].StackStatus = "UPDATE_COMPLETE"
            /\ ~rlIn.template.throws
            /\ rlIn.template.TemplateBody = "present" )
            => rlOut["TechMaturityCatalogProcessor"].emitted # <<>>

\* C25: two discovered in-scope stacks that differ in account, region or
\* stack name have location entries with different targets; the same stack
\* name found in two regions of one account gives two distinguishable
\* entries.
C25_DistinctStacksDistinctTargets ==
  \A i \in DOMAIN origin, j \in DOMAIN origin :
    ( /\ i \in DOMAIN stacks
      /\ j \in DOMAIN stacks
      /\ \/ origin[i].account # origin[j].account
         \/ origin[i].region # origin[j].region
         \/ origin[i].StackName # origin[j].StackName )
      => stacks[i].entity.target # stacks[j].entity.target

====
